---- MODULE Spec2Model ----
(***************************************************************************)
(* Model of src/main.c: the detached point arithmetic (dpa_t), the FIR     *)
(* filter with its shared cursor, delay-and-sum beamforming, the table     *)
(* driven DFT and the main acquisition/processing loop.                    *)
(*                                                                         *)
(* Machine integers keep their width.  A signed 32-bit overflow is         *)
(* undefined behaviour in C: the model carries a build choice (see         *)
(* `build') between the wrapping result of the target's multiply/add       *)
(* instructions and an overflow trap, and every arithmetic result carries  *)
(* a flag `ovf' telling that some computed value left the 32-bit range.    *)
(***************************************************************************)
EXTENDS Integers, Sequences, FiniteSets, TLC

\* ------------------------------------------------------------------------
\* Machine integers
\* ------------------------------------------------------------------------
INT32_MAX == 2147483647
INT32_MIN == -2147483647 - 1

\* limb base for the 64-bit intermediate of dpa_multiply (2^15) and 2^30
LimbBase == 2^15
Limb2 == 2^30

\* C integer division and remainder (truncation toward zero), divisor > 0
CDiv(a, b) == IF a < 0 /\ a % b # 0 THEN (a \div b) + 1 ELSE a \div b
CRem(a, b) == IF a < 0 /\ a % b # 0 THEN (a % b) - b ELSE a % b

\* magnitude of a 32-bit value as three limbs, least significant first
MagLimbs(x) ==
    IF x = INT32_MIN THEN <<0, 0, 2>>
    ELSE LET m == IF x < 0 THEN -x ELSE x
         IN  <<m % LimbBase, (m \div LimbBase) % LimbBase, m \div Limb2>>

\* exact product of two magnitudes: five limbs, least significant first
MulMag(a, b) ==
    LET c0 == a[1] * b[1]
        c1 == a[1] * b[2] + a[2] * b[1] + (c0 \div LimbBase)
        c2 == a[1] * b[3] + a[2] * b[2] + a[3] * b[1] + (c1 \div LimbBase)
        c3 == a[2] * b[3] + a[3] * b[2] + (c2 \div LimbBase)
        c4 == a[3] * b[3] + (c3 \div LimbBase)
    IN  <<c0 % LimbBase, c1 % LimbBase, c2 % LimbBase, c3 % LimbBase, c4>>

\* magnitude divided by 1000, remainder dropped
Div1000(l) ==
    LET t5 == l[5]
        t4 == (t5 % 1000) * LimbBase + l[4]
        t3 == (t4 % 1000) * LimbBase + l[3]
        t2 == (t3 % 1000) * LimbBase + l[2]
        t1 == (t2 % 1000) * LimbBase + l[1]
    IN  <<t1 \div 1000, t2 \div 1000, t3 \div 1000, t4 \div 1000, t5 \div 1000>>

\* does the signed value (neg, magnitude l) lie in the signed 32-bit range
FitsInt32(neg, l) ==
    /\ l[5] = 0
    /\ l[4] = 0
    /\ \/ l[3] < 2
       \/ neg /\ l[3] = 2 /\ l[2] = 0 /\ l[1] = 0

\* the low 32 bits of the signed value (neg, magnitude l), read as int32_t
ToInt32(neg, l) ==
    LET top == l[3] % 4
        s   == (IF top >= 2 THEN (top - 4) * Limb2 ELSE top * Limb2)
                 + l[2] * LimbBase + l[1]
    IN  IF ~neg THEN s
        ELSE IF s = INT32_MIN THEN INT32_MIN ELSE -s

\* the exact 64-bit product x * y of two int32_t, as (neg, limbs)
Mul64(x, y) ==
    [neg  |-> (x < 0) # (y < 0) /\ x # 0 /\ y # 0,
     limb |-> MulMag(MagLimbs(x), MagLimbs(y))]

SmallFactor(x) == -46341 < x /\ x < 46341

\* a machine result: the value left in the int32_t and whether the exact
\* value was outside the signed 32-bit range
Flagged(v, o) == [val |-> v, ovf |-> o]
OrFlag(r, o) == [val |-> r.val, ovf |-> r.ovf \/ o]

\* the 64-bit value p narrowed to int32_t
Narrow64(p) == Flagged(ToInt32(p.neg, p.limb), ~FitsInt32(p.neg, p.limb))

\* int32_t * int32_t as the machine computes it: the wrapped product and
\* whether the exact product left the 32-bit range
Mul32(x, y) ==
    IF x = 0 \/ y = 0 \/ (SmallFactor(x) /\ SmallFactor(y))
    THEN Flagged(x * y, FALSE)
    ELSE Narrow64(Mul64(x, y))

\* int32_t + int32_t as the machine computes it
Add32(x, y) ==
    IF x >= 0 /\ y > INT32_MAX - x
    THEN Flagged((x + INT32_MIN) + (y + INT32_MIN), TRUE)
    ELSE IF x < 0 /\ y < INT32_MIN - x
    THEN Flagged(((x + INT32_MAX) + 1) + ((y + INT32_MAX) + 1), TRUE)
    ELSE Flagged(x + y, FALSE)

\* x * s and x + s where s is itself a machine result
MulFlagged(x, s) == OrFlag(Mul32(x, s.val), s.ovf)
AddFlagged(x, s) == OrFlag(Add32(x, s.val), s.ovf)

\* conversion to int8_t of the point field
ToInt8(p) == ((p + 128) % 256) - 128

\* int32_t scale = 1; for (i = 0; i < n; i++) scale *= 10;
RECURSIVE Pow10Loop(_)
Pow10Loop(n) ==
    IF n <= 0 THEN Flagged(1, FALSE)
    ELSE MulFlagged(10, Pow10Loop(n - 1))

\* the loop's result for every shift dpa_add lets through (shift <= 10)
\* and every decimal_places used
Pow10Tab == [n \in 0..10 |-> Pow10Loop(n)]

\* ------------------------------------------------------------------------
\* DPA core
\* ------------------------------------------------------------------------
Dpa(m, p) == [mantissa |-> m, point |-> p]

\* a result: the dpa_t returned plus the overflow flag of its computation
Res(m, p, o) == [mantissa |-> m, point |-> p, ovf |-> o]
Val(r) == [mantissa |-> r.mantissa, point |-> r.point]
WithPoint(r, p) == Res(r.val, p, r.ovf)

\* {keep.mantissa + other.mantissa * scale, keep.point} with scale = 10^shift
AlignAdd(keep, other, shift) ==
    WithPoint(AddFlagged(keep.mantissa,
                         MulFlagged(other.mantissa, Pow10Tab[shift])),
              keep.point)

\* dpa_add returning b's point where a has the larger point
dpa_add_b_point(a, b) ==
    IF a.point = b.point
    THEN WithPoint(Add32(a.mantissa, b.mantissa), a.point)
    ELSE IF a.point > b.point
    THEN IF a.point - b.point > 10 THEN Res(a.mantissa, a.point, FALSE)
         ELSE WithPoint(AddFlagged(a.mantissa,
                                   MulFlagged(b.mantissa,
                                              Pow10Tab[a.point - b.point])),
                        b.point)
    ELSE IF b.point - a.point > 10 THEN Res(b.mantissa, b.point, FALSE)
         ELSE AlignAdd(b, a, b.point - a.point)

dpa_add(a, b) ==
    IF a.point = b.point
    THEN WithPoint(Add32(a.mantissa, b.mantissa), a.point)
    ELSE IF a.point > b.point
    THEN IF a.point - b.point > 10 THEN Res(a.mantissa, a.point, FALSE)
         ELSE AlignAdd(a, b, a.point - b.point)
    ELSE IF b.point - a.point > 10 THEN Res(b.mantissa, b.point, FALSE)
         ELSE AlignAdd(b, a, b.point - a.point)

\* the tail of dpa_multiply on the 64-bit product p; pt = a.point + b.point
ScaleDown(p, pt) ==
    IF ~FitsInt32(p.neg, p.limb)
    THEN WithPoint(Narrow64([neg |-> p.neg, limb |-> Div1000(p.limb)]),
                   ToInt8(pt + 3))
    ELSE Res(ToInt32(p.neg, p.limb), ToInt8(pt), FALSE)

dpa_multiply(a, b) == ScaleDown(Mul64(a.mantissa, b.mantissa), a.point + b.point)

dpa_from_int(value, decimal_places) ==
    WithPoint(MulFlagged(value, Pow10Tab[decimal_places]), ToInt8(-decimal_places))

dpa_to_int(num) ==
    IF num.point >= 0
    THEN Mul32(num.mantissa, Pow10Tab[num.point].val).val
    ELSE CDiv(num.mantissa, Pow10Tab[-num.point].val)

\* ------------------------------------------------------------------------
\* DSP configuration
\* ------------------------------------------------------------------------
BUFFER_SIZE == 256
FIR_TAPS == 32
FFT_SIZE == 64
NUM_SENSORS == 4
ADC_CHANNELS == 3

\* raw 12-bit sample code of the mid-scale input, and the decimal places
\* process_audio_block converts with
ADC_CENTER == 2048
DECIMAL_PLACES == 4

\* number of blocks the main loop is followed for
MaxFrames == 2

Channels == 0..(ADC_CHANNELS - 1)
Samples == 0..(BUFFER_SIZE - 1)
Taps == 0..(FIR_TAPS - 1)

CoeffMantissas ==
    << -41, -134, -207, -180, -12, 244, 494, 583,
       394, -67, -693, -1266, -1528, -1246, -434, 1116,
       3395, 6251, 9367, 12358, 14808, 16371, 16763, 15808,
       13459, 9806, 5081, -331, -5806, -10646, -14308, -16540 >>

fir_coeffs == [t \in Taps |-> Dpa(CoeffMantissas[t + 1], -6)]

CosMantissas ==
    << 10000, 9808, 9239, 8315, 7071, 5556, 3827, 1951,
       0, -1951, -3827, -5556, -7071, -8315, -9239, -9808 >>

SinMantissas ==
    << 0, 1951, 3827, 5556, 7071, 8315, 9239, 9808,
       10000, 9808, 9239, 8315, 7071, 5556, 3827, 1951 >>

cos_table == [a \in 0..15 |-> Dpa(CosMantissas[a + 1], -4)]
sin_table == [a \in 0..15 |-> Dpa(SinMantissas[a + 1], -4)]

DelayTable == <<0, 2, 4, 6>>
delays == [c \in 0..(NUM_SENSORS - 1) |-> DelayTable[c + 1]]

Zero == Dpa(0, 0)

\* ------------------------------------------------------------------------
\* Blocks the acquisition hardware delivers (raw codes in 0..4095)
\* ------------------------------------------------------------------------
Patterns == {"mid", "impulse", "loud"}

RawSample(p, c, k) ==
    IF p = "mid" THEN ADC_CENTER
    ELSE IF p = "impulse" THEN (IF k = 0 THEN ADC_CENTER + 1 ELSE ADC_CENTER)
    ELSE (k * 997 + c * 1365 + 4095) % 4096

RawBlock(p) == [c \in Channels |-> [k \in Samples |-> RawSample(p, c, k)]]

\* ------------------------------------------------------------------------
\* FIR filter
\* ------------------------------------------------------------------------
\* the tap index off by one position
delay_idx_off(cursor, t) == CRem(cursor - t + FIR_TAPS - 1, FIR_TAPS)

\* int delay_idx = (fir_index - i + FIR_TAPS) % FIR_TAPS;
delay_idx(cursor, t) == CRem(cursor - t + FIR_TAPS, FIR_TAPS)

\* one iteration of the accumulation loop of fir_filter (tap t) over one
\* channel's delay line: the accumulated output, whether an addition
\* overflowed (ub), whether a product lost bits in the narrowing (lossy),
\* whether a product took the divide-by-1000 path (resc)
FirTap(line, cursor, acc, t) ==
    LET entry   == line[delay_idx(cursor, t)]
        product == dpa_multiply(fir_coeffs[t], entry)
        sum     == dpa_add(acc.out, Val(product))
    IN  [out   |-> Val(sum),
         ub    |-> acc.ub \/ sum.ovf,
         lossy |-> acc.lossy \/ product.ovf,
         resc  |-> acc.resc \/ product.point # fir_coeffs[t].point + entry.point]

\* iterations lo..hi-1 of the loop, in order, starting from acc (the range is
\* halved only to bound the evaluation depth: each half is computed to a
\* value before the next one starts)
RECURSIVE FirAcc(_, _, _, _, _)
FirAcc(line, cursor, lo, hi, acc) ==
    IF hi <= lo THEN acc
    ELSE IF hi = lo + 1 THEN FirTap(line, cursor, acc, lo)
    ELSE LET mid == (lo + hi) \div 2
         IN  CHOOSE r \in { FirAcc(line, cursor, mid, hi, l) :
                              l \in {FirAcc(line, cursor, lo, mid, acc)} } : TRUE

\* fir_filter on the channel's delay line `line' (before the store)
fir_filter(line, cursor, input) ==
    LET stored == [line EXCEPT ![cursor] = input]
    IN  [line |-> stored,
         acc  |-> FirAcc(stored, cursor, 0, FIR_TAPS,
                         [out |-> Zero, ub |-> FALSE, lossy |-> FALSE,
                          resc |-> FALSE])]

\* the cursor wrapping one position early
NextIndexShort(cursor) == CRem(cursor + 1, FIR_TAPS - 1)

\* fir_index = (fir_index + 1) % FIR_TAPS;
NextIndex(cursor) == CRem(cursor + 1, FIR_TAPS)

\* ------------------------------------------------------------------------
\* Beamforming
\* ------------------------------------------------------------------------
\* the channels the inner loop visits: ch < NUM_SENSORS && ch < ADC_CHANNELS
BeamChannels == IF NUM_SENSORS < ADC_CHANNELS THEN NUM_SENSORS ELSE ADC_CHANNELS

\* the divisor of output[i].mantissa /= NUM_SENSORS
BeamDivisor == NUM_SENSORS

\* one iteration of the inner loop of delay_and_sum_beamforming for output
\* index k (channel c)
BeamTerm(input, k, acc, c) ==
    LET delayed_idx == k - delays[c]
        sum         == dpa_add(acc.out, input[c][delayed_idx])
    IN  IF delayed_idx >= 0
        THEN [out |-> Val(sum), ub |-> acc.ub \/ sum.ovf]
        ELSE acc

\* iterations lo..hi-1 of the inner loop, in order, starting from acc
RECURSIVE BeamAcc(_, _, _, _, _)
BeamAcc(input, k, lo, hi, acc) ==
    IF hi <= lo THEN acc
    ELSE IF hi = lo + 1 THEN BeamTerm(input, k, acc, lo)
    ELSE LET mid == (lo + hi) \div 2
         IN  CHOOSE r \in { BeamAcc(input, k, mid, hi, l) :
                              l \in {BeamAcc(input, k, lo, mid, acc)} } : TRUE

\* output[i] after the inner loop and output[i].mantissa /= NUM_SENSORS
BeamSample(input, k) ==
    LET acc == BeamAcc(input, k, 0, BeamChannels, [out |-> Zero, ub |-> FALSE])
    IN  [out |-> Dpa(CDiv(acc.out.mantissa, BeamDivisor), acc.out.point),
         ub  |-> acc.ub]

delay_and_sum_beamforming(input, samples) ==
    [k \in 0..(samples - 1) |-> BeamSample(input, k)]

\* ------------------------------------------------------------------------
\* DFT
\* ------------------------------------------------------------------------
\* int angle_idx = (k * n * 16 / N) % 16;
angle_idx(k, n, N) == CRem(CDiv(k * n * 16, N), 16)

\* one iteration of the inner loop of dpa_dft for bin k (input n)
DftTerm(input, k, N, acc, n) ==
    LET a        == angle_idx(k, n, N)
        cos_term == dpa_multiply(input[n], cos_table[a])
        sin_term == dpa_multiply(input[n], sin_table[a])
        re       == dpa_add(acc.re, Val(cos_term))
        im       == dpa_add(acc.im, Val(sin_term))
    IN  [re    |-> Val(re),
         im    |-> Val(im),
         ub    |-> acc.ub \/ re.ovf \/ im.ovf,
         lossy |-> acc.lossy \/ cos_term.ovf \/ sin_term.ovf]

\* iterations lo..hi-1 of the inner loop, in order, starting from acc
RECURSIVE DftAcc(_, _, _, _, _, _)
DftAcc(input, k, N, lo, hi, acc) ==
    IF hi <= lo THEN acc
    ELSE IF hi = lo + 1 THEN DftTerm(input, k, N, acc, lo)
    ELSE LET mid == (lo + hi) \div 2
         IN  CHOOSE r \in { DftAcc(input, k, N, mid, hi, l) :
                              l \in {DftAcc(input, k, N, lo, mid, acc)} } : TRUE

\* the accumulators of bins lo..hi-1, in order (a sequence: bin k is at k+1)
RECURSIVE DftBins(_, _, _, _)
DftBins(input, N, lo, hi) ==
    IF hi <= lo THEN <<>>
    ELSE IF hi = lo + 1
    THEN <<DftAcc(input, lo, N, 0, N,
                  [re |-> Zero, im |-> Zero, ub |-> FALSE, lossy |-> FALSE])>>
    ELSE LET mid == (lo + hi) \div 2
         IN  DftBins(input, N, lo, mid) \o DftBins(input, N, mid, hi)

\* for (k = 0; k < N/2; k++)
dpa_dft(input, N) == DftBins(input, N, 0, CDiv(N, 2))

\* ------------------------------------------------------------------------
\* State
\* ------------------------------------------------------------------------
VARIABLES
    build,              \* what the compiled program does where C leaves it open
    pc,                 \* position of main
    sampling_complete,  \* the completion flag set by dma_handler
    dma_busy,           \* a transfer started by start_sampling is in flight
    adc_buffer,
    signal_buffer,
    output_buffer,
    fft_real,
    fft_imag,
    fir_delay,
    fir_index,
    ch,                 \* loop counters of the FIR stage
    i,
    frame_count,
    delivered,          \* the integers printed for the first FFT bins
    \* history variables
    fed,                \* the blocks acquired so far, oldest first
    started,            \* number of start_sampling calls
    signals,            \* number of completion interrupts
    advances,           \* cursor advances in the current block
    blockStart,         \* fir_index when the current block's FIR stage began
    recent,             \* per channel: inputs passed to fir_filter, newest first
    ovfSeen,            \* some computed value left the signed 32-bit range
    rescaled,           \* some FIR product took the divide-by-1000 path
    \* operands and result of a single arithmetic call
    opA, opB, opRes, opName

pipeVars == <<build, pc, sampling_complete, dma_busy, adc_buffer, signal_buffer,
              output_buffer, fft_real, fft_imag, fir_delay, fir_index, ch, i,
              frame_count, delivered, fed, started, signals, advances,
              blockStart, recent, ovfSeen, rescaled>>
opVars == <<opA, opB, opRes, opName>>
vars == <<pipeVars, opVars>>

\* The builds.  trapv: a signed overflow traps (-ftrapv) instead of
\* wrapping.  hoist: sampling_complete is not volatile, so the compiler may
\* keep the value start_sampling stored and never re-read it in the wait loop.
Builds == [trapv : BOOLEAN, hoist : BOOLEAN]

InitPipe ==
    /\ build \in Builds
    /\ pc = "start"
    /\ sampling_complete = FALSE
    /\ dma_busy = FALSE
    /\ adc_buffer = [c \in Channels |-> [k \in Samples |-> 0]]
    /\ signal_buffer = [c \in Channels |-> [k \in Samples |-> Zero]]
    /\ output_buffer = [k \in Samples |-> Zero]
    /\ fft_real = [k \in 0..(FFT_SIZE - 1) |-> Zero]
    /\ fft_imag = [k \in 0..(FFT_SIZE - 1) |-> Zero]
    /\ fir_delay = [c \in Channels |-> [t \in Taps |-> Zero]]
    /\ fir_index = 0
    /\ ch = 0
    /\ i = 0
    /\ frame_count = 0
    /\ delivered = <<>>
    /\ fed = <<>>
    /\ started = 0
    /\ signals = 0
    /\ advances = 0
    /\ blockStart = 0
    /\ recent = [c \in Channels |-> <<>>]
    /\ ovfSeen = FALSE
    /\ rescaled = FALSE

InitOpIdle ==
    /\ opA = Zero
    /\ opB = Zero
    /\ opRes = Res(0, 0, FALSE)
    /\ opName = "none"

Init == InitPipe /\ InitOpIdle

\* ------------------------------------------------------------------------
\* Acquisition
\* ------------------------------------------------------------------------
\* start_sampling without the reset of the completion flag
KeptFlag == sampling_complete

\* the value start_sampling leaves in the completion flag
ClearedFlag == FALSE

\* main: start_sampling()
StartSampling ==
    /\ pc = "start"
    /\ frame_count < MaxFrames
    /\ sampling_complete' = ClearedFlag
    /\ dma_busy' = TRUE
    /\ started' = started + 1
    /\ pc' = "wait"
    /\ UNCHANGED <<build, adc_buffer, signal_buffer, output_buffer, fft_real,
                   fft_imag, fir_delay, fir_index, ch, i, frame_count,
                   delivered, fed, signals, advances, blockStart, recent,
                   ovfSeen, rescaled, opVars>>

\* the transfer has filled adc_buffer and raises the interrupt
dma_handler ==
    /\ dma_busy
    /\ \E p \in Patterns :
          /\ adc_buffer' = RawBlock(p)
          /\ fed' = Append(fed, p)
    /\ sampling_complete' = TRUE
    /\ dma_busy' = FALSE
    /\ signals' = signals + 1
    /\ UNCHANGED <<build, pc, signal_buffer, output_buffer, fft_real, fft_imag,
                   fir_delay, fir_index, ch, i, frame_count, delivered, started,
                   advances, blockStart, recent, ovfSeen, rescaled, opVars>>

\* main: while (!sampling_complete) tight_loop_contents();
WaitDone ==
    /\ pc = "wait"
    /\ sampling_complete
    /\ ~build.hoist
    /\ pc' = "convert"
    /\ UNCHANGED <<build, sampling_complete, dma_busy, adc_buffer, signal_buffer,
                   output_buffer, fft_real, fft_imag, fir_delay, fir_index, ch,
                   i, frame_count, delivered, fed, started, signals, advances,
                   blockStart, recent, ovfSeen, rescaled, opVars>>

\* ------------------------------------------------------------------------
\* process_audio_block
\* ------------------------------------------------------------------------
\* centering with an offset one too small
CenterLow(raw) == raw - (ADC_CENTER - 1)

\* int32_t sample = (int32_t)adc_buffer[ch][i] - 2048;
Center(raw) == raw - ADC_CENTER

Convert ==
    /\ pc = "convert"
    /\ LET conv == [c \in Channels |-> [k \in Samples |->
                       dpa_from_int(Center(adc_buffer[c][k]), DECIMAL_PLACES)]]
           ub   == \E c \in Channels, k \in Samples : conv[c][k].ovf
       IN  IF build.trapv /\ ub
           THEN /\ pc' = "abort"
                /\ ovfSeen' = TRUE
                /\ UNCHANGED <<signal_buffer, ch, i, advances, blockStart>>
           ELSE /\ signal_buffer' = [c \in Channels |-> [k \in Samples |->
                                        Val(conv[c][k])]]
                /\ ovfSeen' = (ovfSeen \/ ub)
                /\ ch' = 0
                /\ i' = 0
                /\ advances' = 0
                /\ blockStart' = fir_index
                /\ pc' = "fir"
    /\ UNCHANGED <<build, sampling_complete, dma_busy, adc_buffer, output_buffer,
                   fft_real, fft_imag, fir_delay, fir_index, frame_count,
                   delivered, fed, started, signals, recent, rescaled, opVars>>

\* signal_buffer[ch][i] = fir_filter(ch, signal_buffer[ch][i]);
FirFilter ==
    /\ pc = "fir"
    /\ \E r \in {fir_filter(fir_delay[ch], fir_index, signal_buffer[ch][i])} :
          /\ fir_delay' = [fir_delay EXCEPT ![ch] = r.line]
          /\ recent' = [recent EXCEPT
                           ![ch] = SubSeq(<<signal_buffer[ch][i]>> \o @, 1,
                                          IF Len(@) + 1 < FIR_TAPS
                                          THEN Len(@) + 1 ELSE FIR_TAPS)]
          /\ ovfSeen' = (ovfSeen \/ r.acc.ub \/ r.acc.lossy)
          /\ IF build.trapv /\ r.acc.ub
             THEN /\ pc' = "abort"
                  /\ UNCHANGED <<signal_buffer, rescaled>>
             ELSE /\ signal_buffer' = [signal_buffer EXCEPT ![ch][i] = r.acc.out]
                  /\ rescaled' = (rescaled \/ r.acc.resc)
                  /\ pc' = "fir_adv"
    /\ UNCHANGED <<build, sampling_complete, dma_busy, adc_buffer, output_buffer,
                   fft_real, fft_imag, fir_index, ch, i, frame_count, delivered,
                   fed, started, signals, advances, blockStart, opVars>>

\* fir_index = (fir_index + 1) % FIR_TAPS;  and the two loop headers
FirAdvance ==
    /\ pc = "fir_adv"
    /\ fir_index' = NextIndex(fir_index)
    /\ advances' = advances + 1
    /\ IF i + 1 < BUFFER_SIZE
       THEN /\ i' = i + 1
            /\ ch' = ch
            /\ pc' = "fir"
       ELSE IF ch + 1 < ADC_CHANNELS
       THEN /\ i' = 0
            /\ ch' = ch + 1
            /\ pc' = "fir"
       ELSE /\ UNCHANGED <<ch, i>>
            /\ pc' = "beam"
    /\ UNCHANGED <<build, sampling_complete, dma_busy, adc_buffer, signal_buffer,
                   output_buffer, fft_real, fft_imag, fir_delay, frame_count,
                   delivered, fed, started, signals, blockStart, recent,
                   ovfSeen, rescaled, opVars>>

\* delay_and_sum_beamforming(signal_buffer, output_buffer, BUFFER_SIZE);
Beamform ==
    /\ pc = "beam"
    /\ LET r  == delay_and_sum_beamforming(signal_buffer, BUFFER_SIZE)
           ub == \E k \in Samples : r[k].ub
       IN  /\ ovfSeen' = (ovfSeen \/ ub)
           /\ IF build.trapv /\ ub
              THEN /\ pc' = "abort"
                   /\ UNCHANGED output_buffer
              ELSE /\ output_buffer' = [k \in Samples |-> r[k].out]
                   /\ pc' = "dft"
    /\ UNCHANGED <<build, sampling_complete, dma_busy, adc_buffer, signal_buffer,
                   fft_real, fft_imag, fir_delay, fir_index, ch, i, frame_count,
                   delivered, fed, started, signals, advances, blockStart,
                   recent, rescaled, opVars>>

\* if (BUFFER_SIZE >= FFT_SIZE) { dpa_dft(...); print the first 8 bins }
Dft ==
    /\ pc = "dft"
    /\ IF BUFFER_SIZE >= FFT_SIZE
       THEN \E r \in {dpa_dft(output_buffer, FFT_SIZE)} :
               LET ub == \E b \in DOMAIN r : r[b].ub
                   lo == \E b \in DOMAIN r : r[b].lossy
               IN  /\ ovfSeen' = (ovfSeen \/ ub \/ lo)
                   /\ IF build.trapv /\ ub
                      THEN /\ pc' = "abort"
                           /\ UNCHANGED <<fft_real, fft_imag, delivered>>
                      ELSE /\ fft_real' = [k \in DOMAIN fft_real |->
                                             IF k + 1 \in DOMAIN r THEN r[k + 1].re
                                             ELSE fft_real[k]]
                           /\ fft_imag' = [k \in DOMAIN fft_imag |->
                                             IF k + 1 \in DOMAIN r THEN r[k + 1].im
                                             ELSE fft_imag[k]]
                           /\ delivered' = [b \in 1..8 |-> dpa_to_int(r[b].re)]
                           /\ pc' = "end"
       ELSE /\ pc' = "end"
            /\ UNCHANGED <<fft_real, fft_imag, delivered, ovfSeen>>
    /\ UNCHANGED <<build, sampling_complete, dma_busy, adc_buffer, signal_buffer,
                   output_buffer, fir_delay, fir_index, ch, i, frame_count, fed,
                   started, signals, advances, blockStart, recent, rescaled,
                   opVars>>

\* main: frame_count++; (statistics;) sleep_ms(10); back to the loop head
EndFrame ==
    /\ pc = "end"
    /\ frame_count' = frame_count + 1
    /\ pc' = "start"
    /\ UNCHANGED <<build, sampling_complete, dma_busy, adc_buffer, signal_buffer,
                   output_buffer, fft_real, fft_imag, fir_delay, fir_index, ch,
                   i, delivered, fed, started, signals, advances, blockStart,
                   recent, ovfSeen, rescaled, opVars>>

Next ==
    \/ StartSampling
    \/ dma_handler
    \/ WaitDone
    \/ Convert
    \/ FirFilter
    \/ FirAdvance
    \/ Beamform
    \/ Dft
    \/ EndFrame

Spec == Init /\ [][Next]_vars

\* ------------------------------------------------------------------------
\* Single calls of dpa_add and dpa_multiply on operands drawn from bounded
\* sets (the pipeline stays in its initial state)
\* ------------------------------------------------------------------------
OpMantissas ==
    {0, 1, -1, 5, 100, -300, 46341, -65536, 1000000, INT32_MAX, INT32_MIN}
OpPoints == {-10, -6, -2, 0, 1, 9}
OpValues == {Dpa(m, p) : m \in OpMantissas, p \in OpPoints}

InitArith ==
    /\ InitPipe
    /\ ~build.hoist
    /\ opA \in OpValues
    /\ opB \in OpValues
    /\ opRes = Res(0, 0, FALSE)
    /\ opName = "none"

\* opRes = dpa_add(opA, opB); a signed overflow traps in the trapping build
ApplyAdd ==
    /\ opName = "none"
    /\ \E r \in {dpa_add(opA, opB)} :
          IF build.trapv /\ r.ovf
          THEN opName' = "trap" /\ UNCHANGED opRes
          ELSE opName' = "add" /\ opRes' = r
    /\ UNCHANGED <<opA, opB, pipeVars>>

\* opRes = dpa_multiply(opA, opB)
ApplyMultiply ==
    /\ opName = "none"
    /\ opRes' = dpa_multiply(opA, opB)
    /\ opName' = "mul"
    /\ UNCHANGED <<opA, opB, pipeVars>>

NextArith == ApplyAdd \/ ApplyMultiply

SpecArith == InitArith /\ [][NextArith]_vars

\* ------------------------------------------------------------------------
\* Properties
\* ------------------------------------------------------------------------
\* a and b denote the same quantity: a.mantissa * 10^a.point = b.mantissa *
\* 10^b.point (two 32-bit mantissas more than 9 decimal places apart denote
\* the same quantity only when both are 0)
Aligned(hi, lo) ==
    IF hi.point - lo.point > 9
    THEN hi.mantissa = 0 /\ lo.mantissa = 0
    ELSE /\ lo.mantissa % Pow10Tab[hi.point - lo.point].val = 0
         /\ hi.mantissa = lo.mantissa \div Pow10Tab[hi.point - lo.point].val

SameQuantity(a, b) ==
    IF a.point = b.point THEN a.mantissa = b.mantissa
    ELSE IF a.point > b.point THEN Aligned(a, b)
    ELSE Aligned(b, a)

\* the exact sum of two quantities of different scale, at the smaller scale
ExactSum(a, b) ==
    IF a.point > b.point
    THEN WithPoint(AddFlagged(b.mantissa,
                              MulFlagged(a.mantissa, Pow10Tab[a.point - b.point])),
                   b.point)
    ELSE WithPoint(AddFlagged(a.mantissa,
                              MulFlagged(b.mantissa, Pow10Tab[b.point - a.point])),
                   a.point)

PointGap(a, b) == IF a.point > b.point THEN a.point - b.point ELSE b.point - a.point

\* C1: dpa_add on operands of different scales at most 10 apart, where
\* nothing exceeds 32 bits, returns a value denoting the exact sum of the two
\* quantities; in particular add({100,-2},{5,0}) returns {600,-2}.
C1_AddExactSum ==
    /\ (/\ opName = "add"
        /\ opA.point # opB.point
        /\ PointGap(opA, opB) <= 10
        /\ ~opRes.ovf
        /\ ~ExactSum(opA, opB).ovf)
          => SameQuantity(Val(opRes), Val(ExactSum(opA, opB)))
    /\ (opName = "add" /\ opA = Dpa(100, -2) /\ opB = Dpa(5, 0))
          => Val(opRes) = Dpa(600, -2)

\* C4: when the exact product of the mantissas lies outside the signed
\* 32-bit range (and the scale sum + 3 fits the scale type), dpa_multiply
\* returns the exact product divided by 1000, truncated toward zero, as the
\* mantissa, and a.scale + b.scale + 3 as the scale.
C4_MultiplyOverflowPath ==
    (/\ opName = "mul"
     /\ ~FitsInt32(Mul64(opA.mantissa, opB.mantissa).neg,
                   Mul64(opA.mantissa, opB.mantissa).limb)
     /\ opA.point + opB.point + 3 <= 127
     /\ opA.point + opB.point + 3 >= -128)
       => /\ opRes.point = opA.point + opB.point + 3
          /\ FitsInt32(Mul64(opA.mantissa, opB.mantissa).neg,
                       Div1000(Mul64(opA.mantissa, opB.mantissa).limb))
          /\ opRes.mantissa =
                ToInt32(Mul64(opA.mantissa, opB.mantissa).neg,
                        Div1000(Mul64(opA.mantissa, opB.mantissa).limb))

\* the FIR stage of the current block is over
AfterFir == pc \in {"beam", "dft", "end"}
\* process_audio_block is running (or was stopped by a trap)
Processing == pc \in {"convert", "fir", "fir_adv", "beam", "dft", "end", "abort"}
AllMid == \A n \in DOMAIN fed : fed[n] = "mid"

\* C2: from cleared delay lines, a unit impulse followed by zeros on a
\* channel yields, over the first tapCount calls, outputs whose j-th value
\* denotes the same quantity as coefficient j.
C2_ImpulseResponse ==
    (pc = "fir_adv" /\ fed = <<"impulse">> /\ i < FIR_TAPS)
       => SameQuantity(signal_buffer[ch][i], fir_coeffs[i])

\* C3: after process_audio_block on blocks whose raw samples all equal 2048
\* (any number of blocks, delay lines cleared at start), every filtered
\* sample, every beamformed sample and every real and imaginary bin has
\* mantissa 0, and every delivered integer is 0.
C3_SilenceStaysZero ==
    (pc = "end" /\ AllMid)
       => /\ \A c \in Channels, k \in Samples : signal_buffer[c][k].mantissa = 0
          /\ \A k \in Samples : output_buffer[k].mantissa = 0
          /\ \A k \in DOMAIN fft_real :
                fft_real[k].mantissa = 0 /\ fft_imag[k].mantissa = 0
          /\ \A b \in DOMAIN delivered : delivered[b] = 0

C3_Witness == pc = "end" /\ AllMid /\ Len(fed) = 2 /\ Len(delivered) = 8

\* C5: while blocks of raw samples in 0..4095 are processed, every value
\* computed by dpa_from_int, dpa_multiply and dpa_add (the alignment
\* multiplier 10^shift and the aligned product included) stays within the
\* signed 32-bit range.
C5_NoOverflow == ~ovfSeen

\* C6: acquisition and processing alternate: a block is processed only
\* after the completion signal of the acquisition most recently started, no
\* acquisition is started or in flight while a block is processed, and one
\* block is processed per completion signal before main starts the next
\* acquisition.
C6_Alternation ==
    /\ signals <= started
    /\ started <= signals + 1
    /\ dma_busy <=> (signals < started)
    /\ Processing => /\ sampling_complete
                     /\ ~dma_busy
                     /\ signals = started
                     /\ started = frame_count + 1
    /\ pc = "wait" => started = frame_count + 1
    /\ pc = "start" => started = frame_count /\ signals = frame_count

C6_Witness == pc = "convert" /\ frame_count = 1 /\ signals = 2

\* C7 as claimed: the cursor is advanced once per sample index (BUFFER_SIZE
\* advances per block), each advance after all channels were filtered for
\* that index, and for every sample index all channels read the same cursor.
C7_OncePerSampleIndex ==
    /\ pc \in {"fir", "fir_adv"}
          => /\ advances = (IF ch = ADC_CHANNELS - 1 THEN i ELSE 0)
             /\ fir_index = (blockStart + i) % FIR_TAPS
    /\ AfterFir => advances = BUFFER_SIZE

\* C7 as amended: the cursor is advanced once per fir_filter call, right
\* after the call (ADC_CHANNELS * BUFFER_SIZE advances per block); as
\* BUFFER_SIZE is a multiple of FIR_TAPS, the call for sample index i reads
\* the cursor (block start + i) mod FIR_TAPS on every channel.
C7_OncePerCall ==
    /\ pc \in {"fir", "fir_adv"}
          => /\ advances = ch * BUFFER_SIZE + i
             /\ fir_index = (blockStart + i) % FIR_TAPS
    /\ AfterFir => advances = ADC_CHANNELS * BUFFER_SIZE

C7_Witness == pc = "fir_adv" /\ ch = 2 /\ i = 5 /\ frame_count = 1

\* the input passed to the channel's filter t calls before the latest one
InputBefore(c, t) == IF t < Len(recent[c]) THEN recent[c][t + 1] ELSE Zero

\* C8: in every fir_filter call, for every tap t the index (cursor - t) mod
\* tapCount lies in [0, tapCount) and the entry read there is the input
\* passed to the same channel t calls earlier ({0,0} when there was none),
\* also across block boundaries.
C8_DelayLineHistory ==
    pc = "fir_adv"
       => \A t \in Taps :
             /\ delay_idx(fir_index, t) \in Taps
             /\ fir_delay[ch][delay_idx(fir_index, t)] = InputBefore(ch, t)

C8_Witness ==
    /\ pc = "fir_adv"
    /\ fed = <<"loud", "impulse">>
    /\ ch = 1
    /\ i = 3
    /\ Len(recent[ch]) = FIR_TAPS

\* the sum of the delayed mantissas of channels 0..c-1 for output index k
RECURSIVE DelayedSum(_, _)
DelayedSum(k, c) ==
    IF c = 0 THEN Flagged(0, FALSE)
    ELSE IF k - delays[c - 1] >= 0
    THEN AddFlagged(signal_buffer[c - 1][k - delays[c - 1]].mantissa,
                    DelayedSum(k, c - 1))
    ELSE DelayedSum(k, c - 1)

\* C9: given channel streams of scale 0, output[k] of the beamformer has
\* scale 0 and mantissa the truncating quotient of S by the number of
\* channel streams combined, S being the sum of stream[c][k - delay[c]] over
\* the combined channels with k - delay[c] >= 0 (no overflow).
C9_BeamAverage ==
    (pc = "dft" /\ \A c \in Channels, k \in Samples : signal_buffer[c][k].point = 0)
       => \A k \in Samples :
             ~DelayedSum(k, BeamChannels).ovf
                => output_buffer[k] =
                      Dpa(CDiv(DelayedSum(k, BeamChannels).val, BeamChannels), 0)

\* C10: after the FIR stage every element of every channel stream handed to
\* the beamformer has the same scale, also when coefficient products took
\* the overflow-rescale path of dpa_multiply.
C10_UniformScale ==
    pc = "beam"
       => \A c \in Channels, k \in Samples :
             signal_buffer[c][k].point = signal_buffer[0][0].point

C10_Witness == pc = "beam" /\ rescaled /\ fed = <<"loud">>

====
